---- MODULE Spec2Model ----
(***************************************************************************)
(* Model of gsCompositionOfPreconditionersOp<T>                            *)
(* (src/src/gsSolver/gsCompositionOfPreconditionersOp.h).                  *)
(*                                                                         *)
(* The composition holds an ordered list m_ops of preconditioners and a    *)
(* count m_sz.  step sweeps the list in ascending order, stepT in          *)
(* descending order; rows, cols and underlyingOp delegate to element 0     *)
(* behind an assertion that the composition is not empty.                  *)
(*                                                                         *)
(* Vectors are pairs of integers, matrices are 2x2 integer matrices in     *)
(* row-major order <<a11, a12, a21, a22>>.                                 *)
(*                                                                         *)
(* The module also models gsSinglePatchPreconditioners<T>                  *)
(* (src/src/gsSolver/gsSinglePatchPreconditioners.h), the factory bound to *)
(* a basis, a copy of the boundary conditions and an option list.  It has  *)
(* a specification of its own, SpecFactory.                                *)
(*                                                                         *)
(* SpecConcurrent runs addOperator in one thread and step/stepT in another *)
(* on the same composition, statement by statement, with or without a      *)
(* lock that the caller holds around each call.                            *)
(***************************************************************************)
EXTENDS Integers, Sequences, FiniteSets, TLC

VARIABLES m_sz, m_ops, route, given, nAdded, op, f_in, x_in, f, x, calls, ret

\* the factory: its members, the constructor call that built it, the state
\* that call left, the number of getter calls, the getter called last and
\* what it returned
VARIABLES m_basis, m_bc, m_options, built, bound0, nGets, fop, fret

\* two threads sharing the composition: whether the caller serializes the
\* calls, where the sweeping thread is and its loop index i_sweep (the i
\* of the source), where the
\* adding thread is and the operator it adds, and whether a sweep has read
\* m_ops at an index that holds no element
VARIABLES serialized, pc_sweep, i_sweep, pc_add, p_add, outOfRange

\* the variables of the composition
cvars == <<m_sz, m_ops, route, given, nAdded, op, f_in, x_in, f, x, calls, ret>>

\* the variables of the factory
fvars == <<m_basis, m_bc, m_options, built, bound0, nGets, fop, fret>>

\* the variables of the two threads
tvars == <<serialized, pc_sweep, i_sweep, pc_add, p_add, outOfRange>>

vars == <<cvars, fvars, tvars>>

(***************************************************************************)
(* Bounds                                                                  *)
(***************************************************************************)
\* largest number of preconditioners a composition holds in the model
MaxSz == 3
\* number of distinct preconditioner objects the caller can hand in
NumOps == 3
\* largest parametric dimension of a tensor-product basis
MaxDim == 2
\* largest reaction coefficient a passed to a getter
MaxCoef == 2
\* largest number of getter calls on one factory
MaxGets == 2

(***************************************************************************)
(* Small dense linear algebra (gsMatrix<T>)                                *)
(***************************************************************************)
Ident == <<1, 0, 0, 1>>

VecAdd(u, v) == <<u[1] + v[1], u[2] + v[2]>>

VecSub(u, v) == <<u[1] - v[1], u[2] - v[2]>>

MatVec(M, v) == <<M[1] * v[1] + M[2] * v[2], M[3] * v[1] + M[4] * v[2]>>

MatMul(M, N) == <<M[1] * N[1] + M[2] * N[3], M[1] * N[2] + M[2] * N[4],
                  M[3] * N[1] + M[4] * N[3], M[3] * N[2] + M[4] * N[4]>>

MatSub(M, N) == <<M[1] - N[1], M[2] - N[2], M[3] - N[3], M[4] - N[4]>>

Transpose(M) == <<M[1], M[3], M[2], M[4]>>

Reverse(s) == [k \in 1..Len(s) |-> s[Len(s) + 1 - k]]

(***************************************************************************)
(* The constituent preconditioners (objects of type gsPreconditionerOp).   *)
(* All of them relax the same system A x = f; A is symmetric with          *)
(* determinant 1, so that A^-1 is an integer matrix.  Preconditioner 1 is  *)
(* the exact solver P = A^-1; the others are non-symmetric and their       *)
(* iteration matrices I - P A do not commute.  Each object reports its own *)
(* dimensions and its own operator handle, so that the element a           *)
(* composition delegates to can be told from the others.                   *)
(***************************************************************************)
Ops == 1..NumOps

\* the null shared pointer
NullPtr == 0

A == <<2, 1, 1, 1>>

Ainv == <<1, -1, -1, 2>>

Pmat(p) == IF p = 1 THEN Ainv ELSE <<1, p, 0, 1>>

\* one relaxation sweep x <- x + P (f - A x)
opStep(p, rhs, v) == VecAdd(v, MatVec(Pmat(p), VecSub(rhs, MatVec(A, v))))

\* the transposed sweep x <- x + P^T (f - A x)
opStepT(p, rhs, v) ==
    VecAdd(v, MatVec(Transpose(Pmat(p)), VecSub(rhs, MatVec(A, v))))

opRows(p) == 2 * p

opCols(p) == 2 * p + 1

opUnderlyingOp(p) == 100 + p

\* right-hand sides and initial iterates the caller passes in
FIn == {<<1, 0>>, <<1, 2>>}

XIn == {<<0, 0>>, <<1, 2>>}

NoVec == <<0, 0>>

(***************************************************************************)
(* Assertions                                                              *)
(***************************************************************************)
Violation(what) == [kind |-> "violation", val |-> 0, msg |-> what]

Value(v) == [kind |-> "value", val |-> v, msg |-> ""]

NoRet == [kind |-> "void", val |-> 0, msg |-> ""]

\* GISMO_ASSERT(cond, message): a failed assertion is fatal, the guarded
\* statement is never reached
GISMO_ASSERT(cond, message, result) ==
    IF cond THEN result ELSE Violation(message)

(***************************************************************************)
(* Constructors                                                            *)
(***************************************************************************)
\* gsCompositionOfPreconditionersOp()
CtorEmpty == [sz |-> 0, ops |-> <<>>]

\* gsCompositionOfPreconditionersOp(const std::vector<BasePtr>& ops)
CtorVector(ops) == [sz |-> Len(ops), ops |-> ops]

\* the two arguments stored in exchanged positions
CtorTwo_swapped(op0, op1) ==
    [sz |-> 2,
     ops |-> [[k \in 1..2 |-> NullPtr] EXCEPT ![1] = op1, ![2] = op0]]

\* gsCompositionOfPreconditionersOp(op0, op1): m_ops(2) holds two null
\* pointers, which the body overwrites
CtorTwo(op0, op1) ==
    [sz |-> 2,
     ops |-> [[k \in 1..2 |-> NullPtr] EXCEPT ![1] = op0, ![2] = op1]]

\* the last two arguments stored in exchanged positions
CtorThree_misplaced(op0, op1, op2) ==
    [sz |-> 3,
     ops |-> [[k \in 1..3 |-> NullPtr]
                 EXCEPT ![1] = op0, ![2] = op2, ![3] = op1]]

\* gsCompositionOfPreconditionersOp(op0, op1, op2)
CtorThree(op0, op1, op2) ==
    [sz |-> 3,
     ops |-> [[k \in 1..3 |-> NullPtr]
                 EXCEPT ![1] = op0, ![2] = op1, ![3] = op2]]

\* make(ops): a smart pointer to a new composition built by the matching
\* constructor; the value here is the object pointed to
makeVector(ops) == CtorVector(ops)

\* make(op0, op1)
makeTwo(op0, op1) == CtorTwo(op0, op1)

\* make(op0, op1, op2)
makeThree(op0, op1, op2) == CtorThree(op0, op1, op2)

(***************************************************************************)
(* Member functions, as functions of the members m_sz and m_ops.           *)
(* The source indexes m_ops from 0, a sequence is indexed from 1:          *)
(* m_ops[i] of the source is ops[i + 1] here.                              *)
(***************************************************************************)
\* the new operator inserted at the front instead of the back
addOperator_prepends(sz, ops, p) == [sz |-> sz + 1, ops |-> <<p>> \o ops]

\* the operator stored without counting it
addOperator_forgetsCount(sz, ops, p) == [sz |-> sz, ops |-> Append(ops, p)]

\* m_sz++; m_ops.push_back(op);
addOperator(sz, ops, p) == [sz |-> sz + 1, ops |-> Append(ops, p)]

Call(i, ops, kind, rhs, v, w) ==
    [idx |-> i, op |-> ops[i + 1], kind |-> kind, f |-> rhs,
     xin |-> v, xout |-> w]

RECURSIVE stepLoop(_, _, _, _, _, _)
\* for ( index_t i=0; i<m_sz; ++i ) m_ops[i]->step(f,x);
stepLoop(i, sz, ops, rhs, v, log) ==
    IF i < sz
    THEN LET w == opStep(ops[i + 1], rhs, v)
         IN  stepLoop(i + 1, sz, ops, rhs, w,
                      Append(log, Call(i, ops, "step", rhs, v, w)))
    ELSE [x |-> v, f |-> rhs, calls |-> log]

\* the loop started at index 1
step_startsAtOne(sz, ops, rhs, v) == stepLoop(1, sz, ops, rhs, v, <<>>)

\* the loop ended one element early (i < m_sz - 1)
step_stopsEarly(sz, ops, rhs, v) == stepLoop(0, sz - 1, ops, rhs, v, <<>>)

\* the list swept from the back to the front
step_reversed(sz, ops, rhs, v) == stepLoop(0, sz, Reverse(ops), rhs, v, <<>>)

\* the residual f - A x left in f
step_clobbersF(sz, ops, rhs, v) ==
    LET r == stepLoop(0, sz, ops, rhs, v, <<>>)
    IN  [r EXCEPT !.f = VecSub(rhs, MatVec(A, r.x))]

step(sz, ops, rhs, v) == stepLoop(0, sz, ops, rhs, v, <<>>)

RECURSIVE stepTLoop(_, _, _, _, _, _)
\* for ( index_t i=m_sz-1; i>=0; --i ) m_ops[i]->stepT(f,x);
stepTLoop(i, sz, ops, rhs, v, log) ==
    IF i >= 0
    THEN LET w == opStepT(ops[i + 1], rhs, v)
         IN  stepTLoop(i - 1, sz, ops, rhs, w,
                       Append(log, Call(i, ops, "stepT", rhs, v, w)))
    ELSE [x |-> v, f |-> rhs, calls |-> log]

\* the transposed sweep forwarded to the forward sweep
stepT_callsStep(sz, ops, rhs, v) == stepLoop(0, sz, ops, rhs, v, <<>>)

\* x cleared before the sweep
stepT_resetsX(sz, ops, rhs, v) == stepTLoop(sz - 1, sz, ops, rhs, NoVec, <<>>)

stepT(sz, ops, rhs, v) == stepTLoop(sz - 1, sz, ops, rhs, v, <<>>)

\* delegation to the last element instead of element 0
underlyingOp_last(sz, ops) ==
    GISMO_ASSERT(sz > 0,
        "gsCompositionOfPreconditionersOp::underlyingOp does not work for 0 operators.",
        Value(opUnderlyingOp(ops[sz])))

underlyingOp(sz, ops) ==
    GISMO_ASSERT(sz > 0,
        "gsCompositionOfPreconditionersOp::underlyingOp does not work for 0 operators.",
        Value(opUnderlyingOp(ops[1])))

\* delegation to the last element instead of element 0
rows_last(sz, ops) ==
    GISMO_ASSERT(sz > 0,
        "gsCompositionOfPreconditionersOp::rows does not work for 0 operators.",
        Value(opRows(ops[sz])))

rows(sz, ops) ==
    GISMO_ASSERT(sz > 0,
        "gsCompositionOfPreconditionersOp::rows does not work for 0 operators.",
        Value(opRows(ops[1])))

\* cols() copied from rows() without changing the delegated call
cols_returnsRows(sz, ops) ==
    GISMO_ASSERT(sz > 0,
        "gsCompositionOfPreconditionersOp::rows does not work for 0 operators.",
        Value(opRows(ops[1])))

cols(sz, ops) ==
    GISMO_ASSERT(sz > 0,
        "gsCompositionOfPreconditionersOp::rows does not work for 0 operators.",
        Value(opCols(ops[1])))

(***************************************************************************)
(* The statements of addOperator, step and stepT one by one, for the       *)
(* threads of SpecConcurrent.                                              *)
(***************************************************************************)
\* m_sz++;
addOperator_count(sz) == sz + 1

\* m_ops.push_back( op );
addOperator_push(ops, p) == Append(ops, p)

\* step: index_t i=0
stepStart(sz) == 0

\* step: the loop also entered for i = m_sz
stepCond_inclusive(k, sz) == k <= sz

\* step: i<m_sz
stepCond(k, sz) == k < sz

\* step: ++i
stepAdvance(k) == k + 1

\* stepT: index_t i=m_sz-1
stepTStart(sz) == sz - 1

\* stepT: i>=0
stepTCond(k, sz) == k >= 0

\* stepT: --i
stepTAdvance(k) == k - 1

\* m_ops[i] names a stored element
InRange(k, ops) == k >= 0 /\ k < Len(ops)

(***************************************************************************)
(* gsSinglePatchPreconditioners: the values it is built from               *)
(***************************************************************************)
\* tensor-product bases: parametric dimension and functions per direction
Bases == {[dim |-> d, n |-> k] : d \in 1..MaxDim, k \in 2..3}

\* boundary conditions: the sides that carry a Dirichlet condition
BoundaryConditions == SUBSET {"west", "east"}

Strategies == {"elimination", "nitsche", "penalize"}

\* (index_t) _dirichlet: the enumerator as an integer
StrategyIndex(s) ==
    CASE s = "elimination" -> 11
      [] s = "nitsche" -> 12
      [] s = "penalize" -> 13

\* gsOptionList::setInt(label, value)
setInt(opt, label, value) == [opt EXCEPT ![label] = value]

\* gsGenericAssembler<T>::defaultOptions()
defaultOptions ==
    [DirichletStrategy |-> StrategyIndex("elimination"),
     DirichletValues |-> 101,
     InterfaceStrategy |-> 1]

\* option lists a caller passes to the second constructor
OptionLists ==
    {[DirichletStrategy |-> StrategyIndex(s),
      DirichletValues |-> 101,
      InterfaceStrategy |-> t] : s \in Strategies, t \in 0..1}

\* the strategy argument left at its default
FactoryCtor_ignoresStrategy(basis, bc, dirichlet) ==
    [basis |-> basis, bc |-> bc, options |-> defaultOptions]

\* gsSinglePatchPreconditioners(_basis, _bc, _dirichlet):
\* m_options(defaultOptions()), then setInt("DirichletStrategy", ...)
FactoryCtor(basis, bc, dirichlet) ==
    [basis |-> basis, bc |-> bc,
     options |-> setInt(defaultOptions, "DirichletStrategy",
                        StrategyIndex(dirichlet))]

\* the same constructor called without the third argument:
\* _dirichlet = dirichlet::elimination
FactoryCtorDefault(basis, bc) == FactoryCtor(basis, bc, "elimination")

\* gsSinglePatchPreconditioners(_basis, _bc, _opt)
FactoryCtorOptions(basis, bc, opt) ==
    [basis |-> basis, bc |-> bc, options |-> opt]

RECURSIVE Power(_, _)
Power(b, e) == IF e = 0 THEN 1 ELSE b * Power(b, e - 1)

\* number of functions of a tensor-product basis
BasisSize(b) == Power(b.n, b.dim)

\* what a getter hands out: a sparse matrix or a linear operator for
\* M, M^-1, K + a M or (K + a M)^-1, of the size of the basis
Product(type, form, a, basis) ==
    [type |-> type, form |-> form, a |-> a,
     rows |-> BasisSize(basis), cols |-> BasisSize(basis)]

NoProduct == [type |-> "none", form |-> "none", a |-> 0, rows |-> 0, cols |-> 0]

getMassMatrix(basis, bc, opt) == Product("gsSparseMatrix", "mass", 0, basis)

getMassMatrixOp(basis, bc, opt) == Product("gsLinearOperator", "mass", 0, basis)

getMassMatrixInvOp(basis, bc, opt) ==
    Product("gsLinearOperator", "massInverse", 0, basis)

getStiffnessMatrix(basis, bc, opt, a) ==
    Product("gsSparseMatrix", "stiffness", a, basis)

getStiffnessMatrixOp(basis, bc, opt, a) ==
    Product("gsLinearOperator", "stiffness", a, basis)

getFastDiagonalizationOp(basis, bc, opt, a) ==
    Product("gsLinearOperator", "stiffnessInverse", a, basis)

(***************************************************************************)
(* The state machine: one composition object and the caller's f and x.     *)
(*   route, given, nAdded  how the composition was built: the constructor  *)
(*                         used, every preconditioner handed in so far     *)
(*                         (constructor arguments, then addOperator        *)
(*                         arguments) and the number of addOperator calls  *)
(*   op                    the operation that ran last                     *)
(*   f_in, x_in            the caller's f and x when step/stepT was called *)
(*   f, x                  the caller's f and x when it returned           *)
(*   calls                 the calls step/stepT made on the constituents   *)
(*   ret                   what rows/cols/underlyingOp returned            *)
(***************************************************************************)
SeqsUpTo(S, n) == UNION {[1..k -> S] : k \in 0..n}

\* no second thread: every call runs alone, from start to end
NoThreads ==
    /\ serialized = TRUE
    /\ pc_sweep = "idle"
    /\ i_sweep = 0
    /\ pc_add = "idle"
    /\ p_add = NullPtr
    /\ outOfRange = FALSE

\* no factory exists
NoFactory ==
    /\ m_basis = [dim |-> 0, n |-> 0]
    /\ m_bc = {}
    /\ m_options = defaultOptions
    /\ built = [ctor |-> "none"]
    /\ bound0 = [basis |-> m_basis, bc |-> m_bc, options |-> m_options]
    /\ nGets = 0
    /\ fop = "none"
    /\ fret = NoProduct

Constructed(c, r, args) ==
    /\ NoFactory
    /\ NoThreads
    /\ m_sz = c.sz
    /\ m_ops = c.ops
    /\ route = r
    /\ given = args
    /\ nAdded = 0
    /\ op = "ctor"
    /\ f_in = NoVec /\ x_in = NoVec /\ f = NoVec /\ x = NoVec
    /\ calls = <<>>
    /\ ret = NoRet

Init ==
    \/ Constructed(CtorEmpty, "empty", <<>>)
    \/ \E ops \in SeqsUpTo(Ops, MaxSz) :
          Constructed(CtorVector(ops), "vector", ops)
    \/ \E op0 \in Ops, op1 \in Ops :
          Constructed(CtorTwo(op0, op1), "two", <<op0, op1>>)
    \/ \E op0 \in Ops, op1 \in Ops, op2 \in Ops :
          Constructed(CtorThree(op0, op1, op2), "three", <<op0, op1, op2>>)
    \/ \E ops \in SeqsUpTo(Ops, MaxSz) :
          Constructed(makeVector(ops), "makeVector", ops)
    \/ \E op0 \in Ops, op1 \in Ops :
          Constructed(makeTwo(op0, op1), "makeTwo", <<op0, op1>>)
    \/ \E op0 \in Ops, op1 \in Ops, op2 \in Ops :
          Constructed(makeThree(op0, op1, op2), "makeThree", <<op0, op1, op2>>)

NoSweep ==
    /\ f_in' = NoVec /\ x_in' = NoVec /\ f' = NoVec /\ x' = NoVec
    /\ calls' = <<>>

AddOperator(p) ==
    /\ m_sz < MaxSz
    /\ LET c == addOperator(m_sz, m_ops, p)
       IN  m_sz' = c.sz /\ m_ops' = c.ops
    /\ given' = Append(given, p)
    /\ nAdded' = nAdded + 1
    /\ op' = "addOperator"
    /\ ret' = NoRet
    /\ NoSweep
    /\ UNCHANGED route
    /\ UNCHANGED fvars
    /\ UNCHANGED tvars

Swept(name, r, rhs, v) ==
    /\ op' = name
    /\ f_in' = rhs /\ x_in' = v
    /\ f' = r.f /\ x' = r.x
    /\ calls' = r.calls
    /\ ret' = NoRet
    /\ UNCHANGED <<m_sz, m_ops, route, given, nAdded>>
    /\ UNCHANGED fvars
    /\ UNCHANGED tvars

Step(rhs, v) == Swept("step", step(m_sz, m_ops, rhs, v), rhs, v)

StepT(rhs, v) == Swept("stepT", stepT(m_sz, m_ops, rhs, v), rhs, v)

Queried(name, r) ==
    /\ op' = name
    /\ ret' = r
    /\ NoSweep
    /\ UNCHANGED <<m_sz, m_ops, route, given, nAdded>>
    /\ UNCHANGED fvars
    /\ UNCHANGED tvars

UnderlyingOp == Queried("underlyingOp", underlyingOp(m_sz, m_ops))

Rows == Queried("rows", rows(m_sz, m_ops))

Cols == Queried("cols", cols(m_sz, m_ops))

Next ==
    \/ \E p \in Ops : AddOperator(p)
    \/ \E rhs \in FIn, v \in XIn : Step(rhs, v)
    \/ \E rhs \in FIn, v \in XIn : StepT(rhs, v)
    \/ UnderlyingOp
    \/ Rows
    \/ Cols

Spec == Init /\ [][Next]_vars

TypeOK ==
    /\ m_sz \in 0..MaxSz
    /\ m_ops \in SeqsUpTo(Ops, MaxSz)
    /\ route \in {"empty", "vector", "two", "three",
                  "makeVector", "makeTwo", "makeThree"}
    /\ nAdded \in 0..MaxSz
    /\ op \in {"ctor", "addOperator", "step", "stepT", "underlyingOp", "rows", "cols"}
    /\ ret.kind \in {"void", "value", "violation"}

(***************************************************************************)
(* The state machine of the factory: one gsSinglePatchPreconditioners      *)
(* object.  The getters are const member functions and no member is        *)
(* declared mutable.                                                       *)
(***************************************************************************)
\* no composition exists
NoComposition ==
    /\ m_sz = 0 /\ m_ops = <<>>
    /\ route = "none" /\ given = <<>> /\ nAdded = 0
    /\ op = "none"
    /\ f_in = NoVec /\ x_in = NoVec /\ f = NoVec /\ x = NoVec
    /\ calls = <<>>
    /\ ret = NoRet

FactoryConstructed(fac, call) ==
    /\ NoComposition
    /\ NoThreads
    /\ m_basis = fac.basis
    /\ m_bc = fac.bc
    /\ m_options = fac.options
    /\ built = call
    /\ bound0 = fac
    /\ nGets = 0
    /\ fop = "ctor"
    /\ fret = NoProduct

InitFactory ==
    \E basis \in Bases, bc \in BoundaryConditions :
        \/ FactoryConstructed(FactoryCtorDefault(basis, bc),
                              [ctor |-> "default"])
        \/ \E s \in Strategies :
              FactoryConstructed(FactoryCtor(basis, bc, s),
                                 [ctor |-> "strategy", dirichlet |-> s])
        \/ \E opt \in OptionLists :
              FactoryConstructed(FactoryCtorOptions(basis, bc, opt),
                                 [ctor |-> "options", opt |-> opt])

Got(name, product) ==
    /\ nGets < MaxGets
    /\ nGets' = nGets + 1
    /\ fop' = name
    /\ fret' = product
    /\ UNCHANGED <<m_basis, m_bc, m_options, built, bound0>>
    /\ UNCHANGED cvars
    /\ UNCHANGED tvars

GetMassMatrix ==
    Got("getMassMatrix", getMassMatrix(m_basis, m_bc, m_options))

GetMassMatrixOp ==
    Got("getMassMatrixOp", getMassMatrixOp(m_basis, m_bc, m_options))

GetMassMatrixInvOp ==
    Got("getMassMatrixInvOp", getMassMatrixInvOp(m_basis, m_bc, m_options))

\* a getter that switches the stored Dirichlet strategy while assembling
GetStiffnessMatrix_changesOptions(a) ==
    /\ nGets < MaxGets
    /\ nGets' = nGets + 1
    /\ fop' = "getStiffnessMatrix"
    /\ fret' = getStiffnessMatrix(m_basis, m_bc, m_options, a)
    /\ m_options' = setInt(m_options, "DirichletStrategy",
                           StrategyIndex("penalize"))
    /\ UNCHANGED <<m_basis, m_bc, built, bound0>>
    /\ UNCHANGED cvars
    /\ UNCHANGED tvars

GetStiffnessMatrix(a) ==
    Got("getStiffnessMatrix", getStiffnessMatrix(m_basis, m_bc, m_options, a))

GetStiffnessMatrixOp(a) ==
    Got("getStiffnessMatrixOp",
        getStiffnessMatrixOp(m_basis, m_bc, m_options, a))

GetFastDiagonalizationOp(a) ==
    Got("getFastDiagonalizationOp",
        getFastDiagonalizationOp(m_basis, m_bc, m_options, a))

NextFactory ==
    \/ GetMassMatrix
    \/ GetMassMatrixOp
    \/ GetMassMatrixInvOp
    \/ \E a \in 0..MaxCoef : GetStiffnessMatrix(a)
    \/ \E a \in 0..MaxCoef : GetStiffnessMatrixOp(a)
    \/ \E a \in 0..MaxCoef : GetFastDiagonalizationOp(a)

SpecFactory == InitFactory /\ [][NextFactory]_vars

(***************************************************************************)
(* The state machine of two threads on one composition.  The class has no  *)
(* lock.  The adding thread runs m_sz++ and then push_back; the sweeping   *)
(* thread runs the loop of step or stepT: test, then the call on m_ops[i]  *)
(* and the update of i.  Reading m_ops[i] where no element is stored is    *)
(* undefined behaviour: the sweep crashes, or the call lands on some       *)
(* preconditioner object and the sweep goes on.  When the caller           *)
(* serializes, a call starts only while the other thread is outside its    *)
(* call.                                                                   *)
(***************************************************************************)
InitConcurrent ==
    /\ NoFactory
    /\ \E ops \in SeqsUpTo(Ops, MaxSz) :
          /\ m_sz = CtorVector(ops).sz
          /\ m_ops = CtorVector(ops).ops
          /\ route = "vector"
          /\ given = ops
    /\ nAdded = 0
    /\ op = "ctor"
    /\ f_in = NoVec /\ x_in = NoVec /\ f = NoVec /\ x = NoVec
    /\ calls = <<>>
    /\ ret = NoRet
    /\ serialized \in BOOLEAN
    /\ pc_sweep = "idle"
    /\ i_sweep = 0
    /\ pc_add = "idle"
    /\ p_add = NullPtr
    /\ outOfRange = FALSE

\* addOperator is entered and runs m_sz++
AddCount(p) ==
    /\ pc_add = "idle"
    /\ pc_sweep # "crashed"
    /\ serialized => pc_sweep = "idle"
    /\ m_sz < MaxSz
    /\ m_sz' = addOperator_count(m_sz)
    /\ pc_add' = "push"
    /\ p_add' = p
    /\ UNCHANGED <<m_ops, route, given, nAdded, op, f_in, x_in, f, x, calls, ret>>
    /\ UNCHANGED <<serialized, pc_sweep, i_sweep, outOfRange>>
    /\ UNCHANGED fvars

\* addOperator runs m_ops.push_back(op) and returns
AddPush ==
    /\ pc_add = "push"
    /\ pc_sweep # "crashed"
    /\ m_ops' = addOperator_push(m_ops, p_add)
    /\ given' = Append(given, p_add)
    /\ nAdded' = nAdded + 1
    /\ pc_add' = "idle"
    /\ p_add' = NullPtr
    /\ UNCHANGED <<m_sz, route, op, f_in, x_in, f, x, calls, ret>>
    /\ UNCHANGED <<serialized, pc_sweep, i_sweep, outOfRange>>
    /\ UNCHANGED fvars

\* step or stepT is entered and initialises i
SweepCall(kind, rhs, v) ==
    /\ pc_sweep = "idle"
    /\ serialized => pc_add = "idle"
    /\ op' = kind
    /\ i_sweep' = IF kind = "step" THEN stepStart(m_sz) ELSE stepTStart(m_sz)
    /\ f_in' = rhs /\ x_in' = v /\ f' = rhs /\ x' = v
    /\ calls' = <<>>
    /\ outOfRange' = FALSE
    /\ pc_sweep' = "test"
    /\ UNCHANGED <<m_sz, m_ops, route, given, nAdded, ret>>
    /\ UNCHANGED <<serialized, pc_add, p_add>>
    /\ UNCHANGED fvars

\* the loop condition; the sweep returns when it is false
SweepTest ==
    /\ pc_sweep = "test"
    /\ pc_sweep' = IF (IF op = "step" THEN stepCond(i_sweep, m_sz)
                                      ELSE stepTCond(i_sweep, m_sz))
                   THEN "body" ELSE "idle"
    /\ UNCHANGED cvars
    /\ UNCHANGED <<serialized, i_sweep, pc_add, p_add, outOfRange>>
    /\ UNCHANGED fvars

\* the call on the constituent q with the current x, and the update of i
SweepCalls(q) ==
    /\ LET w == IF op = "step" THEN opStep(q, f, x) ELSE opStepT(q, f, x)
       IN  /\ x' = w
           /\ calls' = Append(calls, [idx |-> i_sweep, op |-> q, kind |-> op,
                                      f |-> f, xin |-> x, xout |-> w])
    /\ i_sweep' = IF op = "step" THEN stepAdvance(i_sweep)
                                ELSE stepTAdvance(i_sweep)
    /\ pc_sweep' = "test"

\* m_ops[i]->step(f,x) or m_ops[i]->stepT(f,x), with i inside m_ops
SweepBody ==
    /\ pc_sweep = "body"
    /\ InRange(i_sweep, m_ops)
    /\ SweepCalls(m_ops[i_sweep + 1])
    /\ UNCHANGED <<m_sz, m_ops, route, given, nAdded, op, f_in, x_in, f, ret>>
    /\ UNCHANGED <<serialized, pc_add, p_add, outOfRange>>
    /\ UNCHANGED fvars

\* the same statement with i outside m_ops: the sweep crashes
SweepBodyCrash ==
    /\ pc_sweep = "body"
    /\ ~InRange(i_sweep, m_ops)
    /\ outOfRange' = TRUE
    /\ pc_sweep' = "crashed"
    /\ UNCHANGED cvars
    /\ UNCHANGED <<serialized, i_sweep, pc_add, p_add>>
    /\ UNCHANGED fvars

\* the same statement with i outside m_ops: the call lands on an object
SweepBodyStray(q) ==
    /\ pc_sweep = "body"
    /\ ~InRange(i_sweep, m_ops)
    /\ outOfRange' = TRUE
    /\ SweepCalls(q)
    /\ UNCHANGED <<m_sz, m_ops, route, given, nAdded, op, f_in, x_in, f, ret>>
    /\ UNCHANGED <<serialized, pc_add, p_add>>
    /\ UNCHANGED fvars

NextConcurrent ==
    \/ \E p \in Ops : AddCount(p)
    \/ AddPush
    \/ \E kind \in {"step", "stepT"}, rhs \in FIn, v \in XIn :
          SweepCall(kind, rhs, v)
    \/ SweepTest
    \/ SweepBody
    \/ SweepBodyCrash
    \/ \E q \in Ops : SweepBodyStray(q)

SpecConcurrent == InitConcurrent /\ [][NextConcurrent]_vars

(***************************************************************************)
(* Properties                                                              *)
(***************************************************************************)
\* the indices a sweep visited, in the order of the visits
VisitOrder(log) == [k \in 1..Len(log) |-> log[k].idx]

\* call k of a sweep received the caller's f, and the x left by call k-1
Chained(log, k) ==
    /\ log[k].f = f_in
    /\ log[k].xin = IF k = 1 THEN x_in ELSE log[k - 1].xout

\* C1: one step(f, x) on a composition of n >= 0 preconditioners calls
\* ops[i].step exactly once for each i, in the order 0, 1, ..., n-1; every
\* call receives the f passed to the composition and the x left by the call
\* before it (the first one the caller's x).
StepCallsAscending ==
    op = "step" =>
        /\ Len(calls) = Len(m_ops)
        /\ \A k \in 1..Len(calls) :
              /\ calls[k].idx = k - 1
              /\ calls[k].op = m_ops[k]
              /\ calls[k].kind = "step"
              /\ Chained(calls, k)

StepCallsAscendingWitness ==
    /\ op = "step"
    /\ Len(m_ops) = 3
    /\ Cardinality({m_ops[k] : k \in 1..3}) = 3
    /\ VisitOrder(calls) = <<0, 1, 2>>
    /\ calls[1].xout # calls[1].xin
    /\ calls[3].xin = calls[2].xout
    /\ x_in # NoVec

\* C2: one stepT(f, x) on a composition of n >= 0 preconditioners calls
\* ops[i].stepT exactly once for each i, in the order n-1, n-2, ..., 0, with
\* the same f and the x left by the element visited before; this order is the
\* reverse of the order in which step visits the same composition.
StepTCallsDescending ==
    op = "stepT" =>
        /\ Len(calls) = Len(m_ops)
        /\ \A k \in 1..Len(calls) :
              /\ calls[k].idx = Len(m_ops) - k
              /\ calls[k].op = m_ops[Len(m_ops) - k + 1]
              /\ calls[k].kind = "stepT"
              /\ Chained(calls, k)
        /\ VisitOrder(calls)
              = Reverse(VisitOrder(step(m_sz, m_ops, f_in, x_in).calls))

StepTCallsDescendingWitness ==
    /\ op = "stepT"
    /\ Len(m_ops) = 3
    /\ Cardinality({m_ops[k] : k \in 1..3}) = 3
    /\ VisitOrder(calls) = <<2, 1, 0>>
    /\ calls[2].xin = calls[1].xout
    /\ calls[1].xout # calls[1].xin

\* C3: on a composition built by the two-operator constructor from P1 and
\* P2, stepT(f, x) leaves the x that P1.stepT leaves when applied, with the
\* same f, to the x left by P2.stepT.
TransposeOrderLaw ==
    (op = "stepT" /\ route = "two" /\ nAdded = 0) =>
        x = opStepT(given[1], f_in, opStepT(given[2], f_in, x_in))

\* the two operators differ and the other order gives another x
TransposeOrderLawWitness ==
    /\ op = "stepT" /\ route = "two" /\ nAdded = 0
    /\ given[1] # given[2]
    /\ x = opStepT(given[1], f_in, opStepT(given[2], f_in, x_in))
    /\ x # opStepT(given[2], f_in, opStepT(given[1], f_in, x_in))
    /\ x # opStep(given[2], f_in, opStep(given[1], f_in, x_in))

\* C4: on a composition of n >= 1 elements rows() returns ops[0].rows() and
\* cols() returns ops[0].cols(); on an empty composition every call of
\* rows() or cols() ends in a precondition violation and returns no value.
RowsColsDelegateOrFail ==
    /\ op = "rows" =>
          IF Len(m_ops) >= 1
          THEN ret = Value(opRows(m_ops[1]))
          ELSE ret.kind = "violation"
    /\ op = "cols" =>
          IF Len(m_ops) >= 1
          THEN ret = Value(opCols(m_ops[1]))
          ELSE ret.kind = "violation"

RowsColsDelegateOrFailWitness ==
    /\ op = "cols"
    /\ Len(m_ops) = 0
    /\ ret.kind = "violation"
    /\ ret # Value(0)

\* C5: underlyingOp() on a composition of n >= 1 elements returns the handle
\* that ops[0].underlyingOp() returns; on an empty composition it fails with
\* a precondition violation and returns no handle.
UnderlyingOpDelegatesOrFails ==
    op = "underlyingOp" =>
        IF Len(m_ops) >= 1
        THEN ret = Value(opUnderlyingOp(m_ops[1]))
        ELSE ret.kind = "violation"

UnderlyingOpDelegatesOrFailsWitness ==
    /\ op = "underlyingOp"
    /\ Len(m_ops) >= 2
    /\ m_ops[1] # m_ops[Len(m_ops)]
    /\ ret = Value(opUnderlyingOp(m_ops[1]))

\* the preconditioner handed to the latest addOperator call
LastAdded == given[Len(given)]

\* C6: addOperator(op) on a composition of size n yields a composition of
\* size n+1 with op at index n and the elements 0..n-1 unchanged and in the
\* same order; the next step visits op last, the next stepT visits it first.
AddOperatorAppends ==
    /\ [][nAdded' = nAdded + 1 =>
             /\ m_sz' = m_sz + 1
             /\ Len(m_ops') = Len(m_ops) + 1
             /\ m_ops'[Len(m_ops) + 1] = LastAdded'
             /\ SubSeq(m_ops', 1, Len(m_ops)) = m_ops]_vars
    /\ []((nAdded > 0 /\ op = "step") =>
             (Len(calls) > 0 /\ calls[Len(calls)].op = LastAdded
                             /\ calls[Len(calls)].idx = Len(m_ops) - 1))
    /\ []((nAdded > 0 /\ op = "stepT") =>
             (Len(calls) > 0 /\ calls[1].op = LastAdded
                             /\ calls[1].idx = Len(m_ops) - 1))

AddOperatorAppendsWitness ==
    /\ op = "stepT"
    /\ nAdded > 0
    /\ Len(m_ops) = 3
    /\ m_ops[3] = LastAdded
    /\ m_ops[1] # LastAdded /\ m_ops[2] # LastAdded
    /\ calls[1].op = LastAdded

\* C7: once the composition is not empty, rows(), cols() and underlyingOp()
\* return the same values on every later call, whatever addOperator, step
\* and stepT calls come in between.
QueriesStable ==
    [][m_sz > 0 =>
          /\ rows(m_sz', m_ops') = rows(m_sz, m_ops)
          /\ cols(m_sz', m_ops') = cols(m_sz, m_ops)
          /\ underlyingOp(m_sz', m_ops') = underlyingOp(m_sz, m_ops)
          /\ (op' = "rows" => ret' = rows(m_sz, m_ops))
          /\ (op' = "cols" => ret' = cols(m_sz, m_ops))
          /\ (op' = "underlyingOp" => ret' = underlyingOp(m_sz, m_ops))]_vars

QueriesStableWitness ==
    /\ op = "rows"
    /\ nAdded >= 2
    /\ m_ops[Len(m_ops)] # m_ops[1]
    /\ ret = Value(opRows(given[1]))

\* the exact solution A^-1 f
Solution(rhs) == MatVec(Ainv, rhs)

\* the preconditioner's step sets x to A^-1 f whatever x was
IsExact(p) ==
    \A rhs \in FIn, v \in XIn \cup {Solution(r) : r \in FIn} :
        opStep(p, rhs, v) = Solution(rhs)

AllExact(ops) == \A k \in 1..Len(ops) : IsExact(ops[k])

\* C8, as stated: for any composition of n preconditioners whose steps all
\* set x to A^-1 f, one step(f, x) leaves x = A^-1 f, for every f and x.
ExactStepAnySize ==
    (op = "step" /\ AllExact(m_ops)) => x = Solution(f_in)

\* C8, amended: the same for any composition of n >= 1 such preconditioners
\* (the empty composition leaves x as it was).
ExactStepNonEmpty ==
    (op = "step" /\ AllExact(m_ops) /\ Len(m_ops) >= 1) => x = Solution(f_in)

ExactStepNonEmptyWitness ==
    /\ op = "step"
    /\ AllExact(m_ops)
    /\ Len(m_ops) >= 2
    /\ x_in # Solution(f_in)
    /\ x = Solution(f_in)

\* the preconditioner's step is the relaxation x <- x + P (f - A x)
IsRelaxation(p) ==
    \A rhs \in FIn, v \in XIn :
        opStep(p, rhs, v)
            = VecAdd(v, MatVec(Pmat(p), VecSub(rhs, MatVec(A, v))))

\* the iteration matrix I - P A of one preconditioner
IterationMatrix(p) == MatSub(Ident, MatMul(Pmat(p), A))

RECURSIVE SweepMatrix(_, _)
\* (I - P_k A) ... (I - P_1 A) for the first k elements of ops
SweepMatrix(ops, k) ==
    IF k = 0 THEN Ident
    ELSE MatMul(IterationMatrix(ops[k]), SweepMatrix(ops, k - 1))

RECURSIVE OperatorProduct(_, _)
\* P_k ... P_1 for the first k elements of ops
OperatorProduct(ops, k) ==
    IF k = 0 THEN Ident
    ELSE MatMul(Pmat(ops[k]), OperatorProduct(ops, k - 1))

\* I - P_n ... P_1 A, the iteration matrix of a product of operators
ProductMatrix(ops) ==
    MatSub(Ident, MatMul(OperatorProduct(ops, Len(ops)), A))

Error(v, rhs) == VecSub(v, Solution(rhs))

\* C9: when every constituent step is the relaxation x <- x + P_i (f - A x),
\* one step of the composition [P_1, ..., P_n] maps the error e = x - A^-1 f
\* to (I - P_n A) ... (I - P_1 A) e, factor 1 applied first.
StepErrorIsOrderedProduct ==
    (op = "step" /\ \A k \in 1..Len(m_ops) : IsRelaxation(m_ops[k])) =>
        Error(x, f_in)
            = MatVec(SweepMatrix(m_ops, Len(m_ops)), Error(x_in, f_in))

\* a sweep whose result is not that of the operator product I - P_n..P_1 A,
\* nor that of the factors taken in the opposite order
StepErrorIsOrderedProductWitness ==
    /\ op = "step"
    /\ Len(m_ops) >= 2
    /\ \A k \in 1..Len(m_ops) : IsRelaxation(m_ops[k])
    /\ Error(x, f_in)
          = MatVec(SweepMatrix(m_ops, Len(m_ops)), Error(x_in, f_in))
    /\ Error(x, f_in) # MatVec(ProductMatrix(m_ops), Error(x_in, f_in))
    /\ Error(x, f_in)
          # MatVec(SweepMatrix(Reverse(m_ops), Len(m_ops)), Error(x_in, f_in))

\* C10: step(f, x) and stepT(f, x) change only x: f is the same after the
\* call, and so are the size of the composition and the element at every
\* index.
SweepChangesOnlyX ==
    [][op' \in {"step", "stepT"} =>
          /\ f' = f_in'
          /\ m_sz' = m_sz
          /\ m_ops' = m_ops]_vars

SweepChangesOnlyXWitness ==
    /\ op \in {"step", "stepT"}
    /\ Len(m_ops) >= 2
    /\ x # x_in
    /\ f = f_in
    /\ f_in # NoVec

\* C14: between completed operations the stored count m_sz equals the
\* number of stored operators, and every index step or stepT used lies
\* inside the stored list.
SizeMatchesStored ==
    /\ m_sz = Len(m_ops)
    /\ \A k \in 1..Len(calls) : calls[k].idx \in 0..(Len(m_ops) - 1)

SizeMatchesStoredWitness ==
    /\ op \in {"step", "stepT"}
    /\ nAdded >= 1
    /\ m_sz = 3
    /\ Len(m_ops) = 3
    /\ {calls[k].idx : k \in 1..Len(calls)} = {0, 1, 2}

\* C16: on an empty composition step(f, x) and stepT(f, x) return normally,
\* call no preconditioner and leave x and f as they were; they report no
\* precondition violation.
EmptySweepIsNoOp ==
    (op \in {"step", "stepT"} /\ Len(m_ops) = 0) =>
        /\ calls = <<>>
        /\ x = x_in
        /\ f = f_in
        /\ ret = NoRet
        /\ ret.kind # "violation"

EmptySweepIsNoOpWitness ==
    /\ op = "stepT"
    /\ m_sz = 0
    /\ Len(m_ops) = 0
    /\ x_in # NoVec
    /\ x = x_in
    /\ calls = <<>>

\* the composition as a value
Composition == [sz |-> m_sz, ops |-> m_ops]

RECURSIVE BuiltByAdding(_, _)
\* the empty constructor followed by addOperator for the first k of ps
BuiltByAdding(ps, k) ==
    IF k = 0 THEN CtorEmpty
    ELSE LET c == BuiltByAdding(ps, k - 1)
         IN  addOperator(c.sz, c.ops, ps[k])

\* C17: all construction routes are equivalent: whichever route built the
\* composition from the preconditioners p0, ..., pk-1, it has size k and pi
\* at index i, as the vector constructor, the two- and three-operator
\* constructors, the make overloads and the empty constructor followed by
\* addOperator calls all produce; step, stepT, rows, cols and underlyingOp,
\* which depend on size and elements only, then agree too.
RoutesEquivalent ==
    /\ m_sz = Len(given)
    /\ m_ops = given
    /\ CtorVector(given) = Composition
    /\ makeVector(given) = Composition
    /\ BuiltByAdding(given, Len(given)) = Composition
    /\ Len(given) = 2 =>
          /\ CtorTwo(given[1], given[2]) = Composition
          /\ makeTwo(given[1], given[2]) = Composition
    /\ Len(given) = 3 =>
          /\ CtorThree(given[1], given[2], given[3]) = Composition
          /\ makeThree(given[1], given[2], given[3]) = Composition

RoutesEquivalentWitness ==
    /\ route = "empty"
    /\ nAdded = 3
    /\ Cardinality({given[k] : k \in 1..3}) = 3
    /\ Composition = CtorThree(given[1], given[2], given[3])
    /\ op = "stepT"
    /\ [k \in 1..Len(calls) |-> calls[k].op] = Reverse(given)

\* the members of the factory as one value
BoundState == [basis |-> m_basis, bc |-> m_bc, options |-> m_options]

\* C11: no getter of the factory changes its bound state: after any
\* sequence of getter calls the bound basis, the copied boundary conditions
\* and the option list are the same as right after construction.
GettersKeepBoundState ==
    /\ BoundState = bound0
    /\ m_basis \in Bases
    /\ m_bc \in BoundaryConditions

GettersKeepBoundStateWitness ==
    /\ nGets >= 2
    /\ fop = "getFastDiagonalizationOp"
    /\ fret.a > 0
    /\ built.ctor = "strategy"
    /\ m_bc # {}
    /\ BoundState = bound0

\* the option list is the default one with DirichletStrategy set to s
DefaultsWithStrategy(opt, s) ==
    /\ DOMAIN opt = DOMAIN defaultOptions
    /\ opt["DirichletStrategy"] = StrategyIndex(s)
    /\ \A k \in DOMAIN defaultOptions \ {"DirichletStrategy"} :
          opt[k] = defaultOptions[k]

\* C12: a factory constructed without a strategy argument has
\* DirichletStrategy = elimination; constructed with a strategy s it has
\* DirichletStrategy = s and every other option at the generic-assembler
\* default; constructed with an option list it stores exactly that list.
OptionsAsConstructed ==
    /\ built.ctor = "default" =>
          DefaultsWithStrategy(m_options, "elimination")
    /\ built.ctor = "strategy" =>
          DefaultsWithStrategy(m_options, built.dirichlet)
    /\ built.ctor = "options" => m_options = built.opt

OptionsAsConstructedWitness ==
    /\ fop = "ctor"
    /\ built.ctor = "strategy"
    /\ built.dirichlet = "nitsche"
    /\ m_options["DirichletStrategy"] = StrategyIndex("nitsche")
    /\ m_options["DirichletStrategy"] # defaultOptions["DirichletStrategy"]
    /\ m_options["InterfaceStrategy"] = defaultOptions["InterfaceStrategy"]

\* with serialized calls the statement-by-statement sweep returns what
\* step and stepT compute as a whole
SerializedSweepsAgree ==
    [][(serialized /\ pc_sweep = "test" /\ pc_sweep' = "idle") =>
          LET r == IF op = "step" THEN step(m_sz, m_ops, f_in, x_in)
                                  ELSE stepT(m_sz, m_ops, f_in, x_in)
          IN  x' = r.x /\ f' = r.f /\ calls' = r.calls]_vars

\* C15: the composition has no lock of its own: when addOperator runs
\* concurrently with step or stepT there is an interleaving, the count
\* incremented and the element not yet stored, in which the sweep reads an
\* index at or beyond the number of stored operators; this is the only way
\* to such a read, and with the calls serialized by the caller it never
\* happens.
OutOfRangeOnlyUnserialized ==
    /\ [](serialized => ~outOfRange)
    /\ [](serialized => (pc_sweep # "idle" => m_sz = Len(m_ops)))
    /\ [][(outOfRange' /\ ~outOfRange) =>
             /\ ~serialized
             /\ pc_add = "push"
             /\ m_sz = Len(m_ops) + 1
             /\ i_sweep >= Len(m_ops)]_vars

\* the sweep has just read m_ops[i] with the count incremented and the
\* element not yet stored
OutOfRangeOnlyUnserializedWitness ==
    /\ ~serialized
    /\ outOfRange
    /\ pc_add = "push"
    /\ m_sz = Len(m_ops) + 1
    /\ Len(calls) > 0
    /\ calls[Len(calls)].idx >= Len(m_ops)

====
